---------------------------- MODULE Spec2Model ----------------------------
(***************************************************************************)
(* Model of cq_gears.ring_gear.RingGear.__init__ (src/cq_gears/ring_gear.py)*)
(* : the derivation of the gear parameters and the sampling of the four    *)
(* curves of one tooth of an internal gear.                                *)
(*                                                                         *)
(* Number representation.  The constructor computes in floating point; the *)
(* model computes the same expressions exactly on integer grids.           *)
(*   - lengths are integers, LenUnit of them per unit of length;           *)
(*   - angles are integers, Full of them per turn (2*pi);  values that     *)
(*     come out of tan/arccos are first rounded to a coarser grid          *)
(*     (CoarseTurn per turn) from the tables CosTab and TanTab, which hold *)
(*     cos and tan at every tenth of a degree;                             *)
(*   - a product amp*cos(angle) is kept as the pair (amp, angle folded by  *)
(*     the symmetries of cos), so two coordinates are equal exactly when   *)
(*     the code's floats agree up to rounding;                             *)
(*   - NaN is a flag: it propagates through arithmetic and never compares  *)
(*     equal, as in IEEE-754.                                              *)
(***************************************************************************)
EXTENDS Integers, Sequences, FiniteSets, TLC

VARIABLES
  args,        \* the constructor's arguments (lines 15-17)
  pc,          \* position in __init__
  status,      \* "constructing", "ok", or the exception that ended __init__
  self,        \* the scalar attributes set by lines 18-52
  r,           \* line 55
  phi,         \* line 60
  tsidel_x, tsidel_y,   \* lines 61-62
  ttip_x, ttip_y,       \* lines 67-68
  tsider_x, tsider_y,   \* lines 72-73
  fit,         \* rho, p1, p2, p3, bcr, bcxy, t1, t2 of lines 79-96
  troot_x, troot_y      \* lines 99-100

vars == <<args, pc, status, self, r, phi, tsidel_x, tsidel_y, ttip_x, ttip_y,
          tsider_x, tsider_y, fit, troot_x, troot_y>>

---------------------------------------------------------------------------
(* Bounds of the enumerated arguments. *)
MaxTeeth == 9
MaxCurvePoints == 3

Modules == {-1, 0, 1}
TeethNumbers == 0..MaxTeeth
Widths == {0, 1}
RimWidths == {5}
PressureAngles == {20, 45, 95}
HelixAngles == {0, 45}
Clearances == {0, 1}
Backlashes == {-3, 0}
CurvePointCounts == 0..MaxCurvePoints
SurfaceSplines == {5}

---------------------------------------------------------------------------
(* Grids. *)
RECURSIVE GCD(_, _)
GCD(a, b) == IF b = 0 THEN a ELSE GCD(b, a % b)

RECURSIVE LCMUpTo(_)
LCMUpTo(n) == IF n <= 1 THEN 1 ELSE LET l == LCMUpTo(n - 1) IN (l * n) \div GCD(l, n)

\* every linspace step (stop - start) / (num - 1) is exact on the fine grids
StepDiv == LCMUpTo(MaxCurvePoints - 1)
AngDiv == 2 * StepDiv
\* angle grid of the tables; 4 * z divides it for every z up to 10
CoarseTurn == 10080 * 100
Full == CoarseTurn * AngDiv
Half == Full \div 2
Quarter == Full \div 4
\* table index (tenths of a degree) to coarse angle units
TenthDeg == CoarseTurn \div 3600
\* one radian in coarse angle units (2*pi ~ 710/113)
Radian == (CoarseTurn * 113) \div 710
CosScale == 10^4
LenUnit == 4 * 100 * StepDiv

Abs(x) == IF x < 0 THEN -x ELSE x
Max(a, b) == IF a >= b THEN a ELSE b
Min(a, b) == IF a <= b THEN a ELSE b
\* quotient rounded toward zero, any signs, b /= 0
TruncDiv(a, b) ==
  LET q == Abs(a) \div Abs(b) IN IF (a >= 0) = (b > 0) THEN q ELSE -q

---------------------------------------------------------------------------
(* np.cos, np.tan, np.arccos.  CosTab[k+1] = cos(k/10 degree) * CosScale and  *)
(* TanTab[k+1] = tan(k/10 degree) in coarse angle units, k = 0..900 / 0..899. *)
CosTab ==
  <<
    10000, 10000, 10000, 10000, 10000, 10000, 9999, 9999, 9999, 9999, 9998, 9998,
    9998, 9997, 9997, 9997, 9996, 9996, 9995, 9995, 9994, 9993, 9993, 9992,
    9991, 9990, 9990, 9989, 9988, 9987, 9986, 9985, 9984, 9983, 9982, 9981,
    9980, 9979, 9978, 9977, 9976, 9974, 9973, 9972, 9971, 9969, 9968, 9966,
    9965, 9963, 9962, 9960, 9959, 9957, 9956, 9954, 9952, 9951, 9949, 9947,
    9945, 9943, 9942, 9940, 9938, 9936, 9934, 9932, 9930, 9928, 9925, 9923,
    9921, 9919, 9917, 9914, 9912, 9910, 9907, 9905, 9903, 9900, 9898, 9895,
    9893, 9890, 9888, 9885, 9882, 9880, 9877, 9874, 9871, 9869, 9866, 9863,
    9860, 9857, 9854, 9851, 9848, 9845, 9842, 9839, 9836, 9833, 9829, 9826,
    9823, 9820, 9816, 9813, 9810, 9806, 9803, 9799, 9796, 9792, 9789, 9785,
    9781, 9778, 9774, 9770, 9767, 9763, 9759, 9755, 9751, 9748, 9744, 9740,
    9736, 9732, 9728, 9724, 9720, 9715, 9711, 9707, 9703, 9699, 9694, 9690,
    9686, 9681, 9677, 9673, 9668, 9664, 9659, 9655, 9650, 9646, 9641, 9636,
    9632, 9627, 9622, 9617, 9613, 9608, 9603, 9598, 9593, 9588, 9583, 9578,
    9573, 9568, 9563, 9558, 9553, 9548, 9542, 9537, 9532, 9527, 9521, 9516,
    9511, 9505, 9500, 9494, 9489, 9483, 9478, 9472, 9466, 9461, 9455, 9449,
    9444, 9438, 9432, 9426, 9421, 9415, 9409, 9403, 9397, 9391, 9385, 9379,
    9373, 9367, 9361, 9354, 9348, 9342, 9336, 9330, 9323, 9317, 9311, 9304,
    9298, 9291, 9285, 9278, 9272, 9265, 9259, 9252, 9245, 9239, 9232, 9225,
    9219, 9212, 9205, 9198, 9191, 9184, 9178, 9171, 9164, 9157, 9150, 9143,
    9135, 9128, 9121, 9114, 9107, 9100, 9092, 9085, 9078, 9070, 9063, 9056,
    9048, 9041, 9033, 9026, 9018, 9011, 9003, 8996, 8988, 8980, 8973, 8965,
    8957, 8949, 8942, 8934, 8926, 8918, 8910, 8902, 8894, 8886, 8878, 8870,
    8862, 8854, 8846, 8838, 8829, 8821, 8813, 8805, 8796, 8788, 8780, 8771,
    8763, 8755, 8746, 8738, 8729, 8721, 8712, 8704, 8695, 8686, 8678, 8669,
    8660, 8652, 8643, 8634, 8625, 8616, 8607, 8599, 8590, 8581, 8572, 8563,
    8554, 8545, 8536, 8526, 8517, 8508, 8499, 8490, 8480, 8471, 8462, 8453,
    8443, 8434, 8425, 8415, 8406, 8396, 8387, 8377, 8368, 8358, 8348, 8339,
    8329, 8320, 8310, 8300, 8290, 8281, 8271, 8261, 8251, 8241, 8231, 8221,
    8211, 8202, 8192, 8181, 8171, 8161, 8151, 8141, 8131, 8121, 8111, 8100,
    8090, 8080, 8070, 8059, 8049, 8039, 8028, 8018, 8007, 7997, 7986, 7976,
    7965, 7955, 7944, 7934, 7923, 7912, 7902, 7891, 7880, 7869, 7859, 7848,
    7837, 7826, 7815, 7804, 7793, 7782, 7771, 7760, 7749, 7738, 7727, 7716,
    7705, 7694, 7683, 7672, 7660, 7649, 7638, 7627, 7615, 7604, 7593, 7581,
    7570, 7559, 7547, 7536, 7524, 7513, 7501, 7490, 7478, 7466, 7455, 7443,
    7431, 7420, 7408, 7396, 7385, 7373, 7361, 7349, 7337, 7325, 7314, 7302,
    7290, 7278, 7266, 7254, 7242, 7230, 7218, 7206, 7193, 7181, 7169, 7157,
    7145, 7133, 7120, 7108, 7096, 7083, 7071, 7059, 7046, 7034, 7022, 7009,
    6997, 6984, 6972, 6959, 6947, 6934, 6921, 6909, 6896, 6884, 6871, 6858,
    6845, 6833, 6820, 6807, 6794, 6782, 6769, 6756, 6743, 6730, 6717, 6704,
    6691, 6678, 6665, 6652, 6639, 6626, 6613, 6600, 6587, 6574, 6561, 6547,
    6534, 6521, 6508, 6494, 6481, 6468, 6455, 6441, 6428, 6414, 6401, 6388,
    6374, 6361, 6347, 6334, 6320, 6307, 6293, 6280, 6266, 6252, 6239, 6225,
    6211, 6198, 6184, 6170, 6157, 6143, 6129, 6115, 6101, 6088, 6074, 6060,
    6046, 6032, 6018, 6004, 5990, 5976, 5962, 5948, 5934, 5920, 5906, 5892,
    5878, 5864, 5850, 5835, 5821, 5807, 5793, 5779, 5764, 5750, 5736, 5721,
    5707, 5693, 5678, 5664, 5650, 5635, 5621, 5606, 5592, 5577, 5563, 5548,
    5534, 5519, 5505, 5490, 5476, 5461, 5446, 5432, 5417, 5402, 5388, 5373,
    5358, 5344, 5329, 5314, 5299, 5284, 5270, 5255, 5240, 5225, 5210, 5195,
    5180, 5165, 5150, 5135, 5120, 5105, 5090, 5075, 5060, 5045, 5030, 5015,
    5000, 4985, 4970, 4955, 4939, 4924, 4909, 4894, 4879, 4863, 4848, 4833,
    4818, 4802, 4787, 4772, 4756, 4741, 4726, 4710, 4695, 4679, 4664, 4648,
    4633, 4617, 4602, 4586, 4571, 4555, 4540, 4524, 4509, 4493, 4478, 4462,
    4446, 4431, 4415, 4399, 4384, 4368, 4352, 4337, 4321, 4305, 4289, 4274,
    4258, 4242, 4226, 4210, 4195, 4179, 4163, 4147, 4131, 4115, 4099, 4083,
    4067, 4051, 4035, 4019, 4003, 3987, 3971, 3955, 3939, 3923, 3907, 3891,
    3875, 3859, 3843, 3827, 3811, 3795, 3778, 3762, 3746, 3730, 3714, 3697,
    3681, 3665, 3649, 3633, 3616, 3600, 3584, 3567, 3551, 3535, 3518, 3502,
    3486, 3469, 3453, 3437, 3420, 3404, 3387, 3371, 3355, 3338, 3322, 3305,
    3289, 3272, 3256, 3239, 3223, 3206, 3190, 3173, 3156, 3140, 3123, 3107,
    3090, 3074, 3057, 3040, 3024, 3007, 2990, 2974, 2957, 2940, 2924, 2907,
    2890, 2874, 2857, 2840, 2823, 2807, 2790, 2773, 2756, 2740, 2723, 2706,
    2689, 2672, 2656, 2639, 2622, 2605, 2588, 2571, 2554, 2538, 2521, 2504,
    2487, 2470, 2453, 2436, 2419, 2402, 2385, 2368, 2351, 2334, 2317, 2300,
    2284, 2267, 2250, 2233, 2215, 2198, 2181, 2164, 2147, 2130, 2113, 2096,
    2079, 2062, 2045, 2028, 2011, 1994, 1977, 1959, 1942, 1925, 1908, 1891,
    1874, 1857, 1840, 1822, 1805, 1788, 1771, 1754, 1736, 1719, 1702, 1685,
    1668, 1650, 1633, 1616, 1599, 1582, 1564, 1547, 1530, 1513, 1495, 1478,
    1461, 1444, 1426, 1409, 1392, 1374, 1357, 1340, 1323, 1305, 1288, 1271,
    1253, 1236, 1219, 1201, 1184, 1167, 1149, 1132, 1115, 1097, 1080, 1063,
    1045, 1028, 1011, 993, 976, 958, 941, 924, 906, 889, 872, 854,
    837, 819, 802, 785, 767, 750, 732, 715, 698, 680, 663, 645,
    628, 610, 593, 576, 558, 541, 523, 506, 488, 471, 454, 436,
    419, 401, 384, 366, 349, 332, 314, 297, 279, 262, 244, 227,
    209, 192, 175, 157, 140, 122, 105, 87, 70, 52, 35, 17,
    0
  >>

TanTab ==
  <<
    0, 280, 560, 840, 1120, 1400, 1680, 1960,
    2240, 2520, 2800, 3080, 3360, 3641, 3921, 4201,
    4481, 4761, 5042, 5322, 5602, 5883, 6163, 6443,
    6724, 7004, 7285, 7566, 7846, 8127, 8408, 8688,
    8969, 9250, 9531, 9812, 10093, 10374, 10656, 10937,
    11218, 11500, 11781, 12063, 12344, 12626, 12908, 13190,
    13472, 13754, 14036, 14318, 14600, 14882, 15165, 15447,
    15730, 16013, 16296, 16579, 16862, 17145, 17428, 17711,
    17995, 18278, 18562, 18846, 19130, 19414, 19698, 19982,
    20267, 20551, 20836, 21121, 21406, 21691, 21976, 22261,
    22547, 22832, 23118, 23404, 23690, 23976, 24262, 24549,
    24836, 25122, 25409, 25696, 25984, 26271, 26559, 26846,
    27134, 27422, 27711, 27999, 28288, 28577, 28866, 29155,
    29444, 29734, 30023, 30313, 30603, 30894, 31184, 31475,
    31766, 32057, 32348, 32639, 32931, 33223, 33515, 33808,
    34100, 34393, 34686, 34979, 35272, 35566, 35860, 36154,
    36448, 36743, 37038, 37333, 37628, 37924, 38219, 38515,
    38812, 39108, 39405, 39702, 39999, 40297, 40595, 40893,
    41191, 41490, 41788, 42088, 42387, 42687, 42987, 43287,
    43587, 43888, 44189, 44491, 44792, 45094, 45397, 45699,
    46002, 46305, 46609, 46912, 47217, 47521, 47826, 48131,
    48436, 48742, 49048, 49354, 49661, 49968, 50275, 50583,
    50891, 51199, 51508, 51817, 52126, 52436, 52746, 53057,
    53367, 53679, 53990, 54302, 54614, 54927, 55240, 55553,
    55867, 56181, 56496, 56811, 57126, 57442, 57758, 58074,
    58391, 58708, 59026, 59344, 59663, 59982, 60301, 60621,
    60941, 61262, 61583, 61904, 62226, 62548, 62871, 63194,
    63518, 63842, 64167, 64492, 64817, 65143, 65470, 65796,
    66124, 66452, 66780, 67109, 67438, 67768, 68098, 68428,
    68760, 69091, 69423, 69756, 70089, 70423, 70757, 71092,
    71427, 71763, 72099, 72436, 72773, 73111, 73450, 73789,
    74128, 74468, 74809, 75150, 75492, 75834, 76177, 76520,
    76864, 77209, 77554, 77900, 78246, 78593, 78940, 79289,
    79637, 79987, 80336, 80687, 81038, 81390, 81742, 82095,
    82449, 82803, 83158, 83514, 83870, 84227, 84584, 84942,
    85301, 85661, 86021, 86382, 86743, 87105, 87468, 87832,
    88196, 88561, 88927, 89293, 89660, 90028, 90397, 90766,
    91136, 91507, 91878, 92250, 92623, 92997, 93371, 93747,
    94123, 94499, 94877, 95255, 95634, 96014, 96395, 96776,
    97159, 97542, 97926, 98311, 98696, 99082, 99470, 99858,
    100247, 100636, 101027, 101418, 101811, 102204, 102598, 102993,
    103389, 103786, 104183, 104582, 104981, 105382, 105783, 106185,
    106588, 106992, 107397, 107803, 108210, 108618, 109027, 109437,
    109847, 110259, 110672, 111086, 111500, 111916, 112333, 112751,
    113170, 113589, 114010, 114432, 114855, 115279, 115704, 116131,
    116558, 116986, 117416, 117846, 118278, 118711, 119144, 119579,
    120016, 120453, 120891, 121331, 121772, 122214, 122657, 123101,
    123546, 123993, 124441, 124890, 125340, 125792, 126245, 126699,
    127154, 127610, 128068, 128527, 128988, 129449, 129912, 130376,
    130842, 131309, 131777, 132247, 132718, 133190, 133664, 134139,
    134615, 135093, 135572, 136053, 136535, 137019, 137504, 137990,
    138478, 138967, 139458, 139950, 140444, 140940, 141436, 141935,
    142435, 142936, 143439, 143944, 144450, 144958, 145467, 145978,
    146491, 147005, 147521, 148039, 148558, 149079, 149602, 150126,
    150652, 151180, 151709, 152241, 152774, 153309, 153845, 154383,
    154924, 155466, 156010, 156555, 157103, 157652, 158204, 158757,
    159312, 159869, 160428, 160989, 161552, 162117, 162684, 163253,
    163824, 164397, 164972, 165549, 166128, 166710, 167293, 167879,
    168466, 169056, 169648, 170242, 170839, 171437, 172038, 172641,
    173247, 173854, 174464, 175077, 175691, 176308, 176928, 177549,
    178174, 178800, 179429, 180061, 180695, 181331, 181970, 182612,
    183256, 183902, 184552, 185203, 185858, 186515, 187175, 187837,
    188502, 189170, 189841, 190515, 191191, 191870, 192552, 193237,
    193924, 194615, 195308, 196005, 196704, 197407, 198112, 198821,
    199532, 200247, 200965, 201686, 202410, 203137, 203868, 204602,
    205339, 206079, 206823, 207570, 208320, 209074, 209831, 210592,
    211356, 212124, 212895, 213670, 214449, 215231, 216017, 216806,
    217599, 218397, 219197, 220002, 220810, 221623, 222439, 223259,
    224084, 224912, 225744, 226581, 227421, 228266, 229115, 229968,
    230826, 231688, 232554, 233424, 234299, 235179, 236063, 236951,
    237845, 238742, 239645, 240552, 241464, 242381, 243302, 244229,
    245160, 246096, 247038, 247984, 248936, 249893, 250855, 251822,
    252794, 253772, 254756, 255744, 256739, 257739, 258744, 259755,
    260772, 261795, 262824, 263858, 264898, 265945, 266997, 268056,
    269121, 270192, 271269, 272353, 273443, 274540, 275643, 276753,
    277870, 278993, 280123, 281261, 282405, 283556, 284714, 285880,
    287052, 288233, 289420, 290615, 291818, 293028, 294246, 295472,
    296706, 297947, 299197, 300455, 301722, 302996, 304279, 305571,
    306871, 308180, 309497, 310824, 312159, 313504, 314858, 316221,
    317594, 318976, 320368, 321769, 323180, 324602, 326033, 327475,
    328927, 330389, 331862, 333345, 334839, 336345, 337861, 339388,
    340927, 342477, 344039, 345613, 347198, 348796, 350406, 352028,
    353662, 355309, 356969, 358642, 360328, 362027, 363739, 365466,
    367206, 368960, 370728, 372510, 374307, 376119, 377945, 379787,
    381644, 383516, 385404, 387308, 389228, 391164, 393117, 395087,
    397074, 399078, 401099, 403138, 405195, 407271, 409364, 411477,
    413609, 415759, 417930, 420120, 422330, 424561, 426812, 429085,
    431378, 433694, 436031, 438391, 440773, 443178, 445606, 448059,
    450535, 453035, 455561, 458111, 460687, 463289, 465917, 468572,
    471255, 473965, 476703, 479469, 482265, 485090, 487945, 490831,
    493747, 496695, 499675, 502688, 505734, 508813, 511927, 515076,
    518260, 521480, 524737, 528031, 531364, 534735, 538146, 541596,
    545088, 548622, 552197, 555816, 559480, 563188, 566941, 570741,
    574589, 578485, 582431, 586427, 590474, 594573, 598726, 602933,
    607196, 611516, 615893, 620330, 624827, 629385, 634006, 638691,
    643442, 648260, 653147, 658103, 663131, 668231, 673407, 678659,
    683989, 689399, 694891, 700466, 706127, 711876, 717714, 723645,
    729669, 735790, 742010, 748331, 754755, 761286, 767926, 774678,
    781545, 788530, 795635, 802865, 810222, 817709, 825331, 833092,
    840994, 849042, 857240, 865593, 874104, 882779, 891622, 900639,
    909833, 919212, 928780, 938544, 948508, 958681, 969068, 979677,
    990514, 1001587, 1012904, 1024473, 1036303, 1048403, 1060782, 1073450,
    1086418, 1099695, 1113294, 1127227, 1141506, 1156144, 1171154, 1186552,
    1202353, 1218573, 1235229, 1252338, 1269920, 1287994, 1306583, 1325707,
    1345391, 1365660, 1386540, 1408060, 1430249, 1453140, 1476767, 1501164,
    1526372, 1552431, 1579386, 1607283, 1636173, 1666110, 1697153, 1729363,
    1762809, 1797563, 1833703, 1871314, 1910488, 1951326, 1993935, 2038433,
    2084950, 2133627, 2184616, 2238089, 2294230, 2353245, 2415362, 2480832,
    2549933, 2622978, 2700314, 2782331, 2869468, 2962222, 3061152, 3166899,
    3280193, 3401871, 3532903, 3674409, 3827700, 3994313, 4176064, 4375115,
    4594062, 4836046, 5104908, 5405388, 5743418, 6126505, 6564306, 7069446,
    7658761, 8355208, 9190924, 10212335, 11489076, 13130572, 15319203, 18383249,
    22979271, 30639246, 45959102, 91918484
  >>

\* tan(89.99.. degrees and beyond): NumPy returns about 1.6e16; not reached by
\* the arguments enumerated here
TanPole == 2^30

\* np.cos of a table angle k (tenths of a degree, 0..1800), times CosScale
Cos(k) == IF k <= 900 THEN CosTab[k + 1] ELSE -CosTab[(1800 - k) + 1]

\* np.tan of a table angle k, in coarse angle units
Tan(k) ==
  IF k < 900 THEN TanTab[k + 1]
  ELSE IF k = 900 THEN TanPole
  ELSE -TanTab[(1800 - k) + 1]

\* smallest k in lo..hi with CosTab[k+1] <= c (CosTab is non-increasing)
RECURSIVE FirstAtMost(_, _, _)
FirstAtMost(lo, hi, c) ==
  IF lo >= hi THEN lo
  ELSE LET mid == (lo + hi) \div 2
       IN IF CosTab[mid + 1] <= c THEN FirstAtMost(lo, mid, c)
          ELSE FirstAtMost(mid + 1, hi, c)

\* np.arccos on [0, CosScale]: the table angle whose cosine is nearest to c
ArcCosQ(c) ==
  LET k == FirstAtMost(0, 900, c)
  IN IF k > 0 /\ (CosTab[k] - c) < (c - CosTab[k + 1]) THEN k - 1 ELSE k

\* np.arccos(np.clip(c, -1.0, 1.0)) as a table angle 0..1800 (line 57)
ArcCosClip(c) ==
  LET cc == Max(-CosScale, Min(CosScale, c))
  IN IF cc >= 0 THEN ArcCosQ(cc) ELSE 1800 - ArcCosQ(-cc)

\* tan(a) - a for a table angle k, in coarse angle units (lines 35, 58)
Involute(k) == Tan(k) - k * TenthDeg

---------------------------------------------------------------------------
(* Floating-point values that may be NaN. *)
Num(v) == [nan |-> FALSE, v |-> v]
NaN == [nan |-> TRUE, v |-> 0]
Neg(a) == IF a.nan THEN NaN ELSE Num(-a.v)
Add(a, b) == IF a.nan \/ b.nan THEN NaN ELSE Num(a.v + b.v)
Sub(a, b) == IF a.nan \/ b.nan THEN NaN ELSE Num(a.v - b.v)
Double(a) == IF a.nan THEN NaN ELSE Num(2 * a.v)
Halve(a) == IF a.nan THEN NaN ELSE Num(a.v \div 2)

\* a coordinate amp * cos(arg), amp >= 0 and arg in 0..Half
NaNCoord == [nan |-> TRUE, amp |-> 0, arg |-> 0]
Zero == [nan |-> FALSE, amp |-> 0, arg |-> 0]

\* np.cos(ang) * rad
MulCos(ang, rad) ==
  IF ang.nan THEN NaNCoord
  ELSE IF rad = 0 THEN Zero
  ELSE LET m == (IF rad < 0 THEN ang.v + Half ELSE ang.v) % Full
       IN [nan |-> FALSE, amp |-> Abs(rad),
           arg |-> IF m <= Half THEN m ELSE Full - m]

\* np.sin(ang) * rad = cos(ang - pi/2) * rad
MulSin(ang, rad) == MulCos(Sub(ang, Num(Quarter)), rad)

\* c + d and d - c for a coordinate c of the fitted centre (lines 90-91, 99-100).
\* CircleFit returns no centre but NaN or the axis, so c is NaN or zero; two
\* non-zero coordinates have no exact sum in this representation.
Offset(c, d) ==
  IF c.nan \/ d.nan THEN NaNCoord
  ELSE IF c.amp = 0 THEN d
  ELSE IF d.amp = 0 THEN c
  ELSE NaNCoord

\* np.arctan2(y, x) in (-Half, Half], for the two coordinates of one point
ArcTan2(y, x) ==
  IF y.nan \/ x.nan THEN NaN
  ELSE IF x.amp = 0 /\ y.amp = 0 THEN Num(0)
  ELSE IF y.arg <= Quarter THEN Num(x.arg) ELSE Num(-x.arg)

\* np.linspace(start, stop, num) for exact values
Linspace(start, stop, num) ==
  [i \in 1..num |->
     IF i = num /\ num > 1 THEN stop
     ELSE IF num = 1 THEN start
     ELSE start + ((i - 1) * (stop - start)) \div (num - 1)]

\* np.linspace(start, stop, num) for values that may be NaN
LinspaceNum(start, stop, num) ==
  IF start.nan \/ stop.nan THEN [i \in 1..num |-> NaN]
  ELSE [i \in 1..num |-> Num(Linspace(start.v, stop.v, num)[i])]

\* a[::-1]
Reverse(a) == [i \in 1..Len(a) |-> a[Len(a) + 1 - i]]

---------------------------------------------------------------------------
(* Lines 18-52: the derived parameters. *)

\* np.radians of a whole number of degrees, as a table angle
Radians(deg) == deg * 10

\* line 28
D0(m, z) == m * z * LenUnit
\* line 29: 1.0 / (z / d0)
Adn(z, d0) == d0 \div z
\* line 30: 1.25 / (z / d0)
Ddn(z, d0) == (5 * d0) \div (4 * z)
\* line 31 with the sign of an external gear's addendum circle
DaExternal(d0, adn) == d0 + 2 * adn
\* line 31
Da(d0, adn) == d0 - 2 * adn
\* line 32
Dd(d0, ddn, clearance) == d0 + 2 * ddn + 2 * clearance * LenUnit
\* line 33 for m = 1, in coarse angle units: s0 = m * S0
S0(a0, backlash) == CoarseTurn \div 4 + backlash * Tan(a0)
\* line 40: np.cos(a0) * d0 / 2.0, rounded to the grid of the linspace steps
Rb(a0, d0) == StepDiv * TruncDiv((d0 \div (2 * StepDiv)) * Cos(a0), CosScale)
\* line 41
Rr(rb, rd) == Max(rb, rd)
\* line 42
Tau(z) == Full \div z
\* lines 46-47: width / (r0 * tan(pi/2 - helix_angle)), in coarse angle units
TwistAngle(width, r0, helix) ==
  LET t1000 == TruncDiv(Tan(900 - Radians(helix)) * 1000, Radian)
      q == TruncDiv(width * LenUnit * Radian, r0)
  IN TruncDiv(q * 1000, t1000)
\* line 52
RimR(rd, rim_width) == rd + rim_width * LenUnit

NoSelf ==
  [a0 |-> 0, r0 |-> 0, ra |-> 0, rd |-> 0, rb |-> 0, rr |-> 0, tau |-> 0,
   surface_splines |-> 0, twist_angle |-> 0, rim_r |-> 0]

NoPoint == [x |-> Zero, y |-> Zero]
NoFit ==
  [rho |-> Num(0), p1 |-> NoPoint, p2 |-> NoPoint, p3 |-> NoPoint,
   bcr |-> Num(0), bcxy |-> NoPoint, t1 |-> Num(0), t2 |-> Num(0)]

Init ==
  /\ args \in [module : Modules, teeth_number : TeethNumbers, width : Widths,
               rim_width : RimWidths, pressure_angle : PressureAngles,
               helix_angle : HelixAngles, clearance : Clearances,
               backlash : Backlashes, curve_points : CurvePointCounts,
               surface_splines : SurfaceSplines]
  /\ pc = "derive"
  /\ status = "constructing"
  /\ self = NoSelf
  /\ r = << >>
  /\ phi = << >>
  /\ tsidel_x = << >> /\ tsidel_y = << >>
  /\ ttip_x = << >> /\ ttip_y = << >>
  /\ tsider_x = << >> /\ tsider_y = << >>
  /\ fit = NoFit
  /\ troot_x = << >> /\ troot_y = << >>

\* lines 18-52; line 29 divides by d0
DeriveParameters ==
  /\ pc = "derive"
  /\ LET m == args.module
         z == args.teeth_number
         a0 == Radians(args.pressure_angle)
         d0 == D0(m, z)
     IN IF d0 = 0
        THEN /\ status' = "ZeroDivisionError"
             /\ pc' = "done"
             /\ self' = self
        ELSE LET adn == Adn(z, d0)
                 ddn == Ddn(z, d0)
                 da == Da(d0, adn)
                 dd == Dd(d0, ddn, args.clearance)
                 r0 == d0 \div 2
                 ra == da \div 2
                 rd == dd \div 2
                 rb == Rb(a0, d0)
             IN /\ self' = [a0 |-> a0, r0 |-> r0, ra |-> ra, rd |-> rd,
                            rb |-> rb, rr |-> Rr(rb, rd), tau |-> Tau(z),
                            surface_splines |->
                              IF args.helix_angle # 0
                              THEN args.surface_splines ELSE 2,
                            twist_angle |->
                              IF args.helix_angle # 0
                              THEN TwistAngle(args.width, r0, args.helix_angle)
                              ELSE 0,
                            rim_r |-> RimR(rd, args.rim_width)]
                /\ status' = status
                /\ pc' = "flank"
  /\ UNCHANGED <<args, r, phi, tsidel_x, tsidel_y, ttip_x, ttip_y,
                 tsider_x, tsider_y, fit, troot_x, troot_y>>

---------------------------------------------------------------------------
(* Lines 55-62: the left flank. *)

\* line 56: r0 / r * np.cos(a0), times CosScale; r /= 0
CosA(r0, ri, a0) == TruncDiv(r0 * Cos(a0), ri)

\* lines 56-60 for one radius.  s = r * (s0/d0 + inv_a0 - inv_a) and phi = s / r:
\* for r = 0 line 56 gives inf, the clip 1, and line 60 gives 0/0 = nan.
Phi(ri, r0, a0, z, backlash) ==
  IF ri = 0 THEN NaN
  ELSE LET a == ArcCosClip(CosA(r0, ri, a0))
           inv_a == Involute(a)
           inv_a0 == Involute(a0)
       IN Num(AngDiv * ((S0(a0, backlash) \div z) + inv_a0 - inv_a))

\* np.cos(ang) * rad, elementwise
CosTimes(ang, rad) == [i \in 1..Len(ang) |-> MulCos(ang[i], rad[i])]
\* np.sin(ang) * rad, elementwise
SinTimes(ang, rad) == [i \in 1..Len(ang) |-> MulSin(ang[i], rad[i])]

\* line 55 sampling one point too few
FlankRadiiShort(ra, rr, n) == Linspace(ra, rr, n - 1)
\* line 55
FlankRadii(ra, rr, n) == Linspace(ra, rr, n)

LeftFlank ==
  /\ pc = "flank"
  /\ LET rs == FlankRadii(self.ra, self.rr, args.curve_points)
         ph == [i \in 1..Len(rs) |->
                  Phi(rs[i], self.r0, self.a0, args.teeth_number, args.backlash)]
     IN /\ r' = rs
        /\ phi' = ph
        /\ tsidel_x' = CosTimes(ph, rs)
        /\ tsidel_y' = SinTimes(ph, rs)
  /\ pc' = "tip"
  /\ UNCHANGED <<args, status, self, ttip_x, ttip_y, tsider_x, tsider_y, fit,
                 troot_x, troot_y>>

---------------------------------------------------------------------------
(* Lines 66-68: the tip arc. *)

\* line 66 sweeping from the angle of the first flank sample, phi[0]
TipAnglesFromFirst(ph, n) == LinspaceNum(ph[1], Neg(ph[1]), n)
\* line 66; phi[-1] of a non-empty phi
TipAngles(ph, n) == LinspaceNum(ph[Len(ph)], Neg(ph[Len(ph)]), n)

\* the radius of lines 67-68
TipRadius(s) == s.rd

Const(n, v) == [i \in 1..n |-> v]

TipArc ==
  /\ pc = "tip"
  /\ IF Len(phi) = 0
     THEN \* phi[-1] of an empty array
          /\ status' = "IndexError"
          /\ pc' = "done"
          /\ UNCHANGED <<ttip_x, ttip_y>>
     ELSE LET b == TipAngles(phi, args.curve_points)
              rad == Const(Len(b), TipRadius(self))
          IN /\ ttip_x' = CosTimes(b, rad)
             /\ ttip_y' = SinTimes(b, rad)
             /\ status' = status
             /\ pc' = "mirror"
  /\ UNCHANGED <<args, self, r, phi, tsidel_x, tsidel_y, tsider_x, tsider_y,
                 fit, troot_x, troot_y>>

---------------------------------------------------------------------------
(* Lines 72-73: the right flank. *)

NegAll(ph) == [i \in 1..Len(ph) |-> Neg(ph[i])]

\* line 72 without the [::-1]
RightFlankXNotReversed(ph, rs) == CosTimes(NegAll(ph), rs)
\* line 72
RightFlankX(ph, rs) == Reverse(CosTimes(NegAll(ph), rs))
\* line 73 with sin(phi) for sin(-phi)
RightFlankYNotNegated(ph, rs) == Reverse(SinTimes(ph, rs))
\* line 73
RightFlankY(ph, rs) == Reverse(SinTimes(NegAll(ph), rs))

RightFlank ==
  /\ pc = "mirror"
  /\ tsider_x' = RightFlankX(phi, r)
  /\ tsider_y' = RightFlankY(phi, r)
  /\ pc' = "root"
  /\ UNCHANGED <<args, status, self, r, phi, tsidel_x, tsidel_y, ttip_x, ttip_y,
                 fit, troot_x, troot_y>>

---------------------------------------------------------------------------
(* Lines 79-100: the root arc. *)

Point(ang, rad) == [x |-> MulCos(ang, rad), y |-> MulSin(ang, rad)]
IsNaNPoint(p) == p.x.nan \/ p.y.nan
\* two points are the same point of the plane
SamePoint(p, q) == ~IsNaNPoint(p) /\ ~IsNaNPoint(q) /\ p = q
\* distance of a point from the axis
Radius(p) == p.x.amp

\* line 79
Rho(tau, phi0) == Sub(Num(tau), Double(phi0))
\* line 81
P1(sx, sy) == [x |-> sx[Len(sx)], y |-> sy[Len(sy)]]
\* lines 82-83
P2(phi0, rho, ra) == Point(Sub(Neg(phi0), Halve(rho)), ra)
\* lines 84-85
P3(phi0, rho, ra) == Point(Sub(Neg(phi0), rho), ra)

\* utils.circle3d_by3points (line 88), which is not part of the sources at hand:
\* the circle through three points, or DegenerateGeometry for collinear
\* points.  Three points at one distance from the axis are collinear exactly
\* when two of them coincide (or the distance is 0), and otherwise their circle
\* is centred on the axis.  What the fit does with NaN input is not determined:
\* either outcome is possible.  Points at different distances from the axis
\* are outside this representation (line 88 never passes any: see
\* FitPointsEquidistant).
CircleFit(p1, p2, p3) ==
  LET raise == [ok |-> FALSE, bcr |-> NaN, bcxy |-> NoPoint]
      nanfit == [ok |-> TRUE, bcr |-> NaN,
                 bcxy |-> [x |-> NaNCoord, y |-> NaNCoord]]
  IN IF IsNaNPoint(p1) \/ IsNaNPoint(p2) \/ IsNaNPoint(p3)
     THEN {raise, nanfit}
     ELSE IF Radius(p1) # Radius(p2) \/ Radius(p2) # Radius(p3)
     THEN {nanfit}
     ELSE IF p1 = p2 \/ p2 = p3 \/ p1 = p3 \/ Radius(p1) = 0
     THEN {raise}
     ELSE {[ok |-> TRUE, bcr |-> Num(Radius(p1)), bcxy |-> [x |-> Zero, y |-> Zero]]}

\* lines 90-95: arctan2 of point - centre, moved into [0, 2*pi)
StartAngle(p, c) ==
  LET t == ArcTan2(Offset(c.y, p.y), Offset(c.x, p.x))
  IN IF ~t.nan /\ t.v < 0 THEN Num(t.v + Full) ELSE t

\* Python's min(a, b) and max(a, b): a unless b compares below (above) it
PyMin(a, b) == IF ~a.nan /\ ~b.nan /\ b.v < a.v THEN b ELSE a
PyMax(a, b) == IF ~a.nan /\ ~b.nan /\ b.v > a.v THEN b ELSE a

\* line 97 sweeping upwards, from t1 to t2
RootAnglesAscending(t1, t2, n) ==
  LinspaceNum(Add(PyMin(t1, t2), Num(Full)), Add(PyMax(t1, t2), Num(Full)), n)
\* lines 96-97
RootAngles(t1, t2, n) ==
  LET lo == PyMin(t1, t2)
      hi == PyMax(t1, t2)
  IN LinspaceNum(Add(hi, Num(Full)), Add(lo, Num(Full)), n)

\* line 99 and line 100
RootX(bcxy, bcr, t) ==
  [i \in 1..Len(t) |->
     IF bcr.nan THEN NaNCoord ELSE Offset(bcxy.x, MulCos(t[i], bcr.v))]
RootY(bcxy, bcr, t) ==
  [i \in 1..Len(t) |->
     IF bcr.nan THEN NaNCoord ELSE Offset(bcxy.y, MulSin(t[i], bcr.v))]

RootArc ==
  /\ pc = "root"
  /\ LET rho == Rho(self.tau, phi[1])
         p1 == P1(tsider_x, tsider_y)
         p2 == P2(phi[1], rho, self.ra)
         p3 == P3(phi[1], rho, self.ra)
     IN \E c \in CircleFit(p1, p2, p3) :
          IF ~c.ok
          THEN /\ status' = "DegenerateGeometry"
               /\ fit' = [fit EXCEPT !.rho = rho, !.p1 = p1, !.p2 = p2, !.p3 = p3]
               /\ UNCHANGED <<troot_x, troot_y>>
          ELSE LET t1 == StartAngle(p1, c.bcxy)
                   t2 == StartAngle(p3, c.bcxy)
                   t == RootAngles(t1, t2, args.curve_points)
               IN /\ fit' = [rho |-> rho, p1 |-> p1, p2 |-> p2, p3 |-> p3,
                             bcr |-> c.bcr, bcxy |-> c.bcxy,
                             t1 |-> PyMin(t1, t2), t2 |-> PyMax(t1, t2)]
                  /\ troot_x' = RootX(c.bcxy, c.bcr, t)
                  /\ troot_y' = RootY(c.bcxy, c.bcr, t)
                  /\ status' = "ok"
  /\ pc' = "done"
  /\ UNCHANGED <<args, self, r, phi, tsidel_x, tsidel_y, ttip_x, ttip_y,
                 tsider_x, tsider_y>>

Next == DeriveParameters \/ LeftFlank \/ TipArc \/ RightFlank \/ RootArc

Spec == Init /\ [][Next]_vars

\* the constructor called with the default backlash (line 17)
InitNominal == Init /\ args.backlash = 0
SpecNominal == InitNominal /\ [][Next]_vars

---------------------------------------------------------------------------
(* The tooth profile as four curves of points, and the vocabulary of the   *)
(* properties.                                                             *)

Curve(xs, ys) == [i \in 1..Len(xs) |-> [x |-> xs[i], y |-> ys[i]]]
left_flank == Curve(tsidel_x, tsidel_y)
tip_arc == Curve(ttip_x, ttip_y)
right_flank == Curve(tsider_x, tsider_y)
root_arc == Curve(troot_x, troot_y)

First(c) == c[1]
Last(c) == c[Len(c)]

\* -c for a coordinate: -cos(t) = cos(pi - t)
NegCoord(c) ==
  IF c.nan \/ c.amp = 0 THEN c ELSE [c EXCEPT !.arg = Half - c.arg]
\* the reflection of a point in the tooth centreline: same x, negated y
Reflect(p) == [x |-> p.x, y |-> NegCoord(p.y)]
\* a point rotated about the axis by the angle a
Rotate(p, a) == Point(Add(ArcTan2(p.y, p.x), Num(a)), Radius(p))

n == args.curve_points
Built == pc = "done" /\ status = "ok"

\* a GearSpec that the specification's validation accepts
ValidGearSpec ==
  /\ args.module > 0
  /\ args.teeth_number >= 1
  /\ args.width > 0
  /\ args.rim_width >= 0
  /\ args.clearance >= 0
  /\ args.curve_points >= 2
  /\ Cos(Radians(args.pressure_angle)) > 0

Junction1 == SamePoint(Last(left_flank), First(tip_arc))
Junction2 == SamePoint(Last(tip_arc), First(right_flank))
Junction3 == SamePoint(Last(right_flank), First(root_arc))
Junction4 == SamePoint(Rotate(Last(root_arc), self.tau), First(left_flank))

\* the curves of lines 72-73 exist: the constructor got past line 73
MirrorDone ==
  pc = "root" \/ (pc = "done" /\ status \in {"ok", "DegenerateGeometry"})
\* the curves of lines 67-68 exist
TipDone == pc = "mirror" \/ MirrorDone
\* line 81 was reached: p1, p2, p3 are set
RootReached == pc = "done" /\ status \in {"ok", "DegenerateGeometry"}

\* the arguments the specification's validation rejects (section 4.1)
InvalidParameters ==
  LET m == args.module
      z == args.teeth_number
      d0 == D0(m, z)
  IN \/ m <= 0
     \/ z < 1
     \/ args.width <= 0
     \/ args.curve_points < 2
     \/ Cos(Radians(args.pressure_angle)) <= 0
     \/ (z >= 1 /\ Dd(d0, Ddn(z, d0), args.clearance) <= Da(d0, Adn(z, d0)))

\* phi[0] is finite and 0 < phi[0] < tau/2
Phi0InGap ==
  /\ Len(phi) >= 1
  /\ ~phi[1].nan
  /\ 0 < phi[1].v
  /\ 2 * phi[1].v < self.tau

\* line 88 is reached with three points at one distance from the axis
FitPointsEquidistant ==
  RootReached =>
     \/ IsNaNPoint(fit.p1) \/ IsNaNPoint(fit.p2) \/ IsNaNPoint(fit.p3)
     \/ (Radius(fit.p1) = Radius(fit.p2) /\ Radius(fit.p2) = Radius(fit.p3))

\* where the addendum radius is positive and phi[0] lies in the gap, the four
\* junctions of the tooth boundary all hold
ClosedWherePhi0InGap ==
  (Built /\ ValidGearSpec /\ self.ra > 0 /\ Phi0InGap)
  => (Junction1 /\ Junction2 /\ Junction3 /\ Junction4)

---------------------------------------------------------------------------
(* C1: for every valid GearSpec the three junctions inside one tooth are   *)
(* coincident: last of the left flank = first of the tip arc, last of the  *)
(* tip arc = first of the right flank, last of the right flank = first of  *)
(* the root arc.  (Stated for the profiles whose fillet points are finite: *)
(* what the fit returns for NaN points is not determined by the sources    *)
(* at hand.)                                                               *)
C1_JunctionsCoincide ==
  (Built /\ ValidGearSpec /\ ~IsNaNPoint(fit.p1))
  => (Junction1 /\ Junction2 /\ Junction3)

(* C2: for every valid GearSpec the last point of the root arc, rotated    *)
(* about the axis by tau, coincides with the first point of the left flank,*)
(* the point at radius ra and angle phi[0].                                *)
C2_ToothTiles ==
  (Built /\ ValidGearSpec /\ ~IsNaNPoint(fit.p3)) =>
     /\ Junction4
     /\ SamePoint(First(left_flank), Point(phi[1], self.ra))

(* C3: construction ends with InvalidParameter, and returns no profile,    *)
(* whenever module <= 0, teeth number < 1, width <= 0, curve_points < 2,   *)
(* cos(pressure_angle) <= 0 or rd <= ra.                                   *)
C3_InvalidParameterRaised ==
  (pc = "done" /\ InvalidParameters) => status = "InvalidParameter"

\* line 79 gave rho <= 0
RhoNonPositive == ~fit.rho.nan /\ fit.rho.v <= 0
\* two of the points of lines 81-85 coincide
FitPointsCollinear ==
  /\ ~IsNaNPoint(fit.p1) /\ ~IsNaNPoint(fit.p2) /\ ~IsNaNPoint(fit.p3)
  /\ (fit.p1 = fit.p2 \/ fit.p2 = fit.p3 \/ fit.p1 = fit.p3)

(* C4: when rho = tau - 2*phi0 <= 0, or when the three fillet-fit points   *)
(* are collinear, the root arc fails with DegenerateGeometry and yields no *)
(* root-arc points.                                                        *)
C4_DegenerateGeometryRaised ==
  (/\ pc = "done"
   /\ ValidGearSpec
   /\ status \in {"ok", "DegenerateGeometry"}
   /\ (RhoNonPositive \/ FitPointsCollinear))
  => (status = "DegenerateGeometry" /\ troot_x = << >> /\ troot_y = << >>)

(* C5: for every valid GearSpec each of the four curves has exactly        *)
(* curve_points points, and the x and y sequences of each curve have the   *)
(* same length.                                                            *)
C5_CurveLengths ==
  (Built /\ ValidGearSpec) =>
     /\ Len(tsidel_x) = n /\ Len(tsidel_y) = n
     /\ Len(ttip_x) = n /\ Len(ttip_y) = n
     /\ Len(tsider_x) = n /\ Len(tsider_y) = n
     /\ Len(troot_x) = n /\ Len(troot_y) = n
C5_Witness ==
  Built /\ ValidGearSpec /\ n = MaxCurvePoints /\ Len(troot_y) = MaxCurvePoints

(* C6: mirror law: for every index i, right_flank[i] is the reflection     *)
(* (same x, negated y) of left_flank[curve_points-1-i].                    *)
C6_MirrorLaw ==
  MirrorDone =>
     /\ Len(right_flank) = n
     /\ \A i \in 1..n : right_flank[i] = Reflect(left_flank[n + 1 - i])
C6_Witness ==
  /\ MirrorDone /\ n >= 3
  /\ ~IsNaNPoint(left_flank[1])
  /\ left_flank[1] # left_flank[n]
  /\ right_flank[n] # left_flank[1]
  /\ right_flank[n] = Reflect(left_flank[1])

(* C7: for module > 0, teeth number >= 1 and clearance >= 0 the derived    *)
(* radii satisfy ra < r0 < rd, with r0 = m*z/2, ra = (d0 - 2*adn)/2,       *)
(* rd = (d0 + 2*ddn + 2*clearance)/2, and rim_r = rd + rim_width.          *)
C7_RadiiOrdered ==
  (/\ pc # "derive" /\ status # "ZeroDivisionError"
   /\ args.module > 0 /\ args.teeth_number >= 1 /\ args.clearance >= 0)
  => /\ self.ra < self.r0 /\ self.r0 < self.rd
     /\ 2 * self.r0 = args.module * args.teeth_number * LenUnit
     /\ 2 * self.ra = args.module * (args.teeth_number - 2) * LenUnit
     /\ 4 * self.rd =
          (args.module * (2 * args.teeth_number + 5) + 4 * args.clearance) * LenUnit
     /\ self.rim_r = self.rd + args.rim_width * LenUnit
C7_Witness ==
  /\ pc = "flank" /\ args.module > 0 /\ args.teeth_number >= 1
  /\ args.clearance > 0 /\ self.ra < 0 /\ self.rim_r > self.rd

\* p is an end of the curve c
Adjoins(p, c) == SamePoint(p, First(c)) \/ SamePoint(p, Last(c))

SweepPoint(phi_end, i, rad) ==
  Point(Num((phi_end * (n + 1 - 2 * i)) \div (n - 1)), rad)
TipArcSweeps(phi_end) ==
  /\ Len(tip_arc) = n
  /\ \A i \in 1..n :
       /\ tip_arc[i] = SweepPoint(phi_end.v, i, self.rd)
       /\ Radius(tip_arc[i]) = self.rd
       /\ SamePoint(tip_arc[i], Reflect(tip_arc[n + 1 - i]))

RootArcOnAddendumCircle ==
  LET ra == self.ra
      phi0 == phi[1].v
      rho == self.tau - 2 * phi0
      OnAxis == [x |-> Zero, y |-> Zero]
  IN /\ Radius(fit.p1) = ra /\ Radius(fit.p2) = ra /\ Radius(fit.p3) = ra
     /\ fit.bcr = Num(ra) /\ fit.bcxy = OnAxis
     /\ fit.p1 = Point(Num(-phi0), ra)
     /\ fit.p2 = Point(Num(-(self.tau \div 2)), ra)
     /\ fit.p3 = Point(Num(-(self.tau - phi0)), ra)
     /\ Len(root_arc) = n
     /\ \A i \in 1..n :
          /\ root_arc[i] = Point(Num(-phi0 - ((i - 1) * rho) \div (n - 1)), ra)
          /\ Radius(root_arc[i]) = ra
     /\ SamePoint(First(root_arc), fit.p1)
     /\ SamePoint(Last(root_arc), fit.p3)

=============================================================================
